---- MODULE Spec2Model ----
(***************************************************************************)
(* Streaming transport and voice-activity gate of the speech-to-text       *)
(* providers (DeepgramProvider.ts and the AssemblyAI provider).            *)
(*                                                                         *)
(* One provider instance is modelled.  Every WebSocket the instance ever   *)
(* created keeps its handlers bound to the instance, also after this.ws    *)
(* has moved on to another socket.  The handlers of all sockets are the    *)
(* same, so the sockets this.ws no longer names are kept as a bag: how     *)
(* many of them are in each readyState.  `ws` is the readyState of the     *)
(* socket this.ws names.                                                   *)
(* Calls into the external world are recorded: `scheduled` holds the       *)
(* delays handed to setTimeout since the last onopen, `delivered` the      *)
(* messages the last step passed to the caller's onError callback, `sent`  *)
(* the frames handed to WebSocket.send.                                    *)
(***************************************************************************)
EXTENDS Integers, Sequences, FiniteSets, TLC

----------------------------------------------------------------------------
(* Bounds of the model *)

MaxSockets == 7          \* sockets one instance may create (transport spec)
MaxDropSockets == 2      \* sockets one instance may create (reconnecting capture spec)
MaxFrames == 10          \* audio frames delivered (capture spec)
MaxDropFrames == 3       \* audio frames delivered (reconnecting capture spec)
MaxMsgSockets == 2       \* sockets one instance may create (message spec)
MaxVoiceFrames == 60     \* frames delivered to the analyzer in one run
MaxStopFrames == 4       \* audio frames delivered (start and stop spec)
MaxLen == 3              \* samples in one captured buffer (conversion spec)

----------------------------------------------------------------------------
(* Program constants *)

maxReconnectAttempts == 5
BackoffBaseMs == 1000
BackoffCapMs == 10000
vadThreshold == 10       \* RMS 0.01, in units of 1/1000
hangoverMs == 300
maxPreRoll == 8

Providers == {"deepgram", "assemblyai"}
Origins == {"caller", "timer"}
RmsLevels == {9, 10}     \* RMS of a frame in 1/1000: just below / at threshold
FrameGaps == {100, 400}  \* milliseconds between two frame callbacks

VARIABLES
  provider,           \* which provider class the instance is
  ws,                 \* readyState of the socket this.ws names, or "null"
  orphans,            \* live sockets this.ws no longer names, by readyState
  created,            \* sockets created so far
  reconnectAttempts,  \* this.reconnectAttempts
  timers,             \* pending setTimeout callbacks of attemptReconnect
  pendingTok,         \* token exchanges in flight, by who called initialize()
  onError,            \* this.onError: "null" or "cb"
  isListening,        \* this.isListening
  capture,            \* capture path wired by startListening
  preRollFrames,      \* closure variable preRollFrames (frame ids)
  inSpeech,           \* closure variable inSpeech
  lastSpeechTs,       \* closure variable lastSpeechTs
  now,                \* Date.now()
  frames,             \* RMS of every frame delivered so far (id = index)
  dropped,            \* frames whose send was attempted while not connected
  sent,               \* frame ids handed to ws.send, in order
  delivered,          \* messages the last step passed to the onError callback
  scheduled,          \* delays handed to setTimeout since the last onopen
  onTranscript,       \* this.onTranscript: "null" or "cb"
  lastMsg,            \* the provider message handleMessage handled last
  heard,              \* what handleMessage passed to onTranscript for it
  startError,         \* what startListening() threw in the last step, or "none"
  float32,            \* samples of the last captured buffer, in 1/SampleScale
  sampleRate,         \* rate of the audio context that captured it, 0: none yet
  outRate,            \* rate it was resampled to
  down,               \* what downsampleBuffer returned for it
  pcm16,              \* what convertFloat32ToInt16 returned for that
  pitchHistory,       \* VoiceAnalyzer.pitchHistory
  energyHistory,      \* VoiceAnalyzer.energyHistory
  spectralHistory,    \* VoiceAnalyzer.spectralHistory
  speakerProfiles,    \* VoiceAnalyzer.speakerProfiles
  currentSpeaker,     \* VoiceAnalyzer.currentSpeaker
  plan,               \* what the capture source of the analyzer will deliver
  offered,            \* frames the capture source delivered in this run
  seen,               \* of these, the ones passed to analyzeFrame, in order
  events,             \* change events of this run: frame and newSpeaker
  lastResult          \* what the last call on the analyzer did and returned

sockVars == <<ws, orphans, created>>
gateVars == <<preRollFrames, inSpeech, lastSpeechTs>>
frameVars == <<now, frames, dropped, sent>>
msgVars == <<lastMsg, heard>>
historyVars == <<pitchHistory, energyHistory, spectralHistory>>
analyzerVars == <<pitchHistory, energyHistory, spectralHistory,
                  speakerProfiles, currentSpeaker>>
audioVars == <<float32, sampleRate, outRate, down, pcm16>>
voiceVars == <<pitchHistory, energyHistory, spectralHistory, speakerProfiles,
               currentSpeaker, plan, offered, seen, events, lastResult>>
vars == <<provider, ws, orphans, created, reconnectAttempts, timers,
          pendingTok, onError, isListening, capture, preRollFrames,
          inSpeech, lastSpeechTs, now, frames, dropped, sent,
          delivered, scheduled, onTranscript, lastMsg, heard, startError,
          float32, sampleRate, outRate, down, pcm16,
          pitchHistory, energyHistory, spectralHistory, speakerProfiles,
          currentSpeaker, plan, offered, seen, events, lastResult>>

LiveStates == {"CONNECTING", "OPEN", "CLOSING"}

Min(a, b) == IF a < b THEN a ELSE b

----------------------------------------------------------------------------
(* Helpers *)

\* this.onError?.(msg): delivered only when a callback is registered.
Report(log, msg) == IF onError = "cb" THEN Append(log, msg) ELSE log

\* a backoff that doubles without the cap
ReconnectDelayUncapped(n) == BackoffBaseMs * 2^n

\* delay computed by attemptReconnect for the n-th attempt
ReconnectDelay(n) == Min(BackoffBaseMs * 2^n, BackoffCapMs)

\* an onopen that leaves the counter alone
onopenKeep(n) == n

\* value ws.onopen assigns to reconnectAttempts
onopenAttempts(n) == 0

\* the guard in front of every ws.send: this.ws && readyState === OPEN
CanSend == ws = "OPEN"

\* number of sockets of the instance that are connecting or open
ActiveSockets ==
  (IF ws \in {"CONNECTING", "OPEN"} THEN 1 ELSE 0)
    + orphans["CONNECTING"] + orphans["OPEN"]

\* number of sockets of the instance that have not yet fired close
LiveSockets ==
  (IF ws \in LiveStates THEN 1 ELSE 0)
    + orphans["CONNECTING"] + orphans["OPEN"] + orphans["CLOSING"]

\* no provider message has been handled yet
NoMessage == [kind |-> "none", text |-> "", isFinal |-> "undefined"]

\* a VoiceProfile as the constructor creates it (the timestamp is left out)
ZeroProfile ==
  [avgPitch |-> 0, pitchStdDev |-> 0, avgEnergy |-> 0, spectralCentroid |-> 0]

\* the capture source of the analyzer has not been set up
NoPlan == [host |-> "none", first |-> 0, second |-> 0, block |-> 0]

\* no call on the analyzer has been made
NoResult == [op |-> "none", classified |-> FALSE, speaker |-> 0,
             changeEvent |-> -1, used |-> FALSE]

\* the step is not a call of ws.onmessage
NoIncoming == lastMsg' = NoMessage /\ heard' = << >>

\* the step is not a call of startListening() that throws
NoThrow == startError' = "none"

Init ==
  /\ provider \in Providers
  /\ ws = "null"
  /\ orphans = [st \in LiveStates |-> 0]
  /\ created = 0
  /\ reconnectAttempts = 0
  /\ timers = 0
  /\ pendingTok = [o \in Origins |-> 0]
  /\ onError = "null"
  /\ isListening = FALSE
  /\ capture = "none"
  /\ preRollFrames = << >>
  /\ inSpeech = FALSE
  /\ lastSpeechTs = 0
  /\ now = 0
  /\ frames = << >>
  /\ dropped = {}
  /\ sent = << >>
  /\ delivered = << >>
  /\ scheduled = << >>
  /\ onTranscript = "null"
  /\ lastMsg = NoMessage
  /\ heard = << >>
  /\ startError = "none"
  /\ float32 = << >>
  /\ sampleRate = 0
  /\ outRate = 0
  /\ down = << >>
  /\ pcm16 = << >>
  /\ pitchHistory = << >>
  /\ energyHistory = << >>
  /\ spectralHistory = << >>
  /\ speakerProfiles = [id \in {0, 1} |-> ZeroProfile]
  /\ currentSpeaker = 0
  /\ plan = NoPlan
  /\ offered = 0
  /\ seen = << >>
  /\ events = << >>
  /\ lastResult = NoResult

----------------------------------------------------------------------------
(* Transport *)

\* this.ws = new WebSocket(url): a fresh socket, CONNECTING, becomes this.ws;
\* the socket this.ws named before keeps its handlers
NewSocket ==
  /\ orphans' = IF ws \in LiveStates
                THEN [orphans EXCEPT ![ws] = @ + 1] ELSE orphans
  /\ ws' = "CONNECTING"
  /\ created' = created + 1

\* an attemptReconnect() that never gives up
attemptReconnectUnbounded(errs) ==
  /\ reconnectAttempts' = reconnectAttempts + 1
  /\ scheduled' = Append(scheduled, ReconnectDelay(reconnectAttempts + 1))
  /\ timers' = timers + 1
  /\ delivered' = errs

\* attemptReconnect(), run by ws.onclose; errs is what the handlers of this
\* event have passed to onError so far
attemptReconnect(errs) ==
  IF reconnectAttempts < maxReconnectAttempts
  THEN /\ reconnectAttempts' = reconnectAttempts + 1
       /\ scheduled' = Append(scheduled, ReconnectDelay(reconnectAttempts + 1))
       /\ timers' = timers + 1
       /\ delivered' = errs
  ELSE /\ delivered' = Report(errs, "fatal")
       /\ UNCHANGED <<reconnectAttempts, scheduled, timers>>

\* ws.onerror: Deepgram reports to onError, AssemblyAI only rejects
onerror(errs) == IF provider = "deepgram" THEN Report(errs, "connect") ELSE errs

\* initialize(): Deepgram opens the socket at once; AssemblyAI first starts
\* the token exchange with the backend
initialize(o, maxS) ==
  IF provider = "deepgram"
  THEN /\ created < maxS
       /\ NewSocket
       /\ UNCHANGED pendingTok
  ELSE /\ created + pendingTok["caller"] + pendingTok["timer"] < maxS
       /\ pendingTok' = [pendingTok EXCEPT ![o] = @ + 1]
       /\ UNCHANGED sockVars

\* the caller calls initialize()
Initialize(maxS) ==
  /\ initialize("caller", maxS)
  /\ delivered' = << >>
  /\ NoIncoming
  /\ NoThrow
  /\ UNCHANGED <<audioVars, voiceVars, onTranscript, provider, reconnectAttempts, timers, onError, isListening,
                 capture, gateVars, frameVars, scheduled>>

\* the token exchange of an initialize() succeeds: the socket is created
TokenOk(o) ==
  /\ provider = "assemblyai"
  /\ pendingTok[o] > 0
  /\ pendingTok' = [pendingTok EXCEPT ![o] = @ - 1]
  /\ NewSocket
  /\ delivered' = << >>
  /\ NoIncoming
  /\ NoThrow
  /\ UNCHANGED <<audioVars, voiceVars, onTranscript, provider, reconnectAttempts, timers, onError, isListening,
                 capture, gateVars, frameVars, scheduled>>

\* the token exchange fails: initialize() throws; the caller sees the
\* rejection, the reconnect timer's catch only logs it
TokenFail(o) ==
  /\ provider = "assemblyai"
  /\ pendingTok[o] > 0
  /\ pendingTok' = [pendingTok EXCEPT ![o] = @ - 1]
  /\ delivered' = << >>
  /\ NoIncoming
  /\ NoThrow
  /\ UNCHANGED <<audioVars, voiceVars, onTranscript, provider, sockVars, reconnectAttempts, timers, onError,
                 isListening, capture, gateVars, frameVars, scheduled>>

\* a socket in readyState st leaves it for st2 ("CLOSED": it is gone);
\* cur tells whether it is the socket this.ws names
Move(cur, st, st2) ==
  IF cur
  THEN /\ ws = st
       /\ ws' = st2
       /\ UNCHANGED orphans
  ELSE /\ orphans[st] > 0
       /\ orphans' = IF st2 = "CLOSED"
                     THEN [orphans EXCEPT ![st] = @ - 1]
                     ELSE [orphans EXCEPT ![st] = @ - 1, ![st2] = @ + 1]
       /\ UNCHANGED ws

\* ws.onopen
SocketOpen(cur) ==
  /\ Move(cur, "CONNECTING", "OPEN")
  /\ reconnectAttempts' = onopenAttempts(reconnectAttempts)
  /\ scheduled' = << >>
  /\ delivered' = << >>
  /\ NoIncoming
  /\ NoThrow
  /\ UNCHANGED <<audioVars, voiceVars, onTranscript, provider, created, timers, pendingTok, onError, isListening,
                 capture, gateVars, frameVars>>

\* the connection fails: the browser fires error, then close
SocketFail(cur, st) ==
  /\ Move(cur, st, "CLOSED")
  /\ attemptReconnect(onerror(<< >>))
  /\ NoIncoming
  /\ NoThrow
  /\ UNCHANGED <<audioVars, voiceVars, onTranscript, provider, created, pendingTok, onError, isListening,
                 capture, gateVars, frameVars>>

\* the connection closes without an error event (closed by the peer, or
\* the closing handshake started by ws.close() completes)
SocketClose(cur, st) ==
  /\ st # "CONNECTING"
  /\ Move(cur, st, "CLOSED")
  /\ attemptReconnect(<< >>)
  /\ NoIncoming
  /\ NoThrow
  /\ UNCHANGED <<audioVars, voiceVars, onTranscript, provider, created, pendingTok, onError, isListening,
                 capture, gateVars, frameVars>>

\* the setTimeout callback of attemptReconnect runs: it calls initialize()
TimerFire(maxS) ==
  /\ timers > 0
  /\ timers' = timers - 1
  /\ initialize("timer", maxS)
  /\ delivered' = << >>
  /\ NoIncoming
  /\ NoThrow
  /\ UNCHANGED <<audioVars, voiceVars, onTranscript, provider, reconnectAttempts, onError, isListening, capture,
                 gateVars, frameVars, scheduled>>

\* disconnect(): ws.close() on the current socket, this.ws = null
Disconnect ==
  /\ orphans' = IF ws \in LiveStates
                THEN [orphans EXCEPT !["CLOSING"] = @ + 1] ELSE orphans
  /\ ws' = "null"
  /\ isListening' = FALSE
  /\ delivered' = << >>
  /\ NoIncoming
  /\ NoThrow
  /\ UNCHANGED <<audioVars, voiceVars, onTranscript, provider, created, reconnectAttempts, timers, pendingTok,
                 onError, capture, gateVars, frameVars, scheduled>>

----------------------------------------------------------------------------
(* Capture *)

\* startListening() succeeds on the given capture path
StartListening(cb, path) ==
  /\ ~isListening
  /\ onTranscript' = "cb"
  /\ onError' = cb
  /\ isListening' = TRUE
  /\ capture' = path
  /\ preRollFrames' = << >>
  /\ inSpeech' = FALSE
  /\ lastSpeechTs' = 0
  /\ delivered' = << >>
  /\ NoIncoming
  /\ NoThrow
  /\ UNCHANGED <<audioVars, voiceVars, provider, sockVars, reconnectAttempts, timers, pendingTok,
                 frameVars, scheduled>>

\* a catch block that swallows the error
captureErrorSwallowed(cb) == << >>

\* this.onError?.(errorMsg) in the catch block of startListening(), right
\* after this.onError was set to cb
captureError(cb) == IF cb = "cb" THEN << "capture" >> ELSE << >>

\* startListening() when getUserMedia or the set-up of the audio graph
\* throws: the callbacks are registered, the error is reported and thrown
StartListeningFail(cb) ==
  /\ ~isListening
  /\ onTranscript' = "cb"
  /\ onError' = cb
  /\ delivered' = captureError(cb)
  /\ startError' = "capture"
  /\ NoIncoming
  /\ UNCHANGED <<audioVars, voiceVars, provider, sockVars, reconnectAttempts, timers,
                 pendingTok, isListening, capture, gateVars, frameVars,
                 scheduled>>

\* stopListening()
StopListening ==
  /\ isListening
  /\ isListening' = FALSE
  /\ delivered' = << >>
  /\ NoIncoming
  /\ NoThrow
  /\ UNCHANGED <<audioVars, voiceVars, onTranscript, provider, sockVars, reconnectAttempts, timers, pendingTok,
                 onError, capture, gateVars, frameVars, scheduled>>

\* a pre-roll buffer that never evicts
PushPreRollUnbounded(q, f) == Append(q, f)

\* preRollFrames.push(pcm16); if (length > maxPreRoll) shift()
PushPreRoll(q, f) ==
  LET q1 == Append(q, f) IN IF Len(q1) > maxPreRoll THEN Tail(q1) ELSE q1

\* rms >= vadThreshold
IsVoice(rms) == rms >= vadThreshold

\* now - lastSpeechTs <= hangoverMs
InHangover(t, last) == t - last <= hangoverMs

Range(q) == {q[i] : i \in 1..Len(q)}

\* a send guard that lets frames through whatever the readyState
TransmitUnguarded(fs) == fs

\* if (this.ws && this.ws.readyState === OPEN) ws.send(f), for each f of fs
Transmit(fs) == IF CanSend THEN fs ELSE << >>

\* the frames of fs that the send guard turned away
Refused(fs) == IF CanSend THEN {} ELSE Range(fs)

\* node.port.onmessage of the AudioWorklet path of DeepgramProvider: the
\* voice-activity gate with its pre-roll buffer; f is the frame, t is now
GateFrame(f, rms, t) ==
  LET q == PushPreRoll(preRollFrames, f) IN
  IF IsVoice(rms)
  THEN /\ inSpeech' = TRUE
       /\ lastSpeechTs' = t
       /\ preRollFrames' = << >>
       /\ sent' = sent \o Transmit(q) \o Transmit(<<f>>)
       /\ dropped' = dropped \cup Refused(q \o <<f>>)
  ELSE /\ preRollFrames' = q
       /\ UNCHANGED lastSpeechTs
       /\ IF inSpeech
          THEN IF InHangover(t, lastSpeechTs)
               THEN /\ sent' = sent \o Transmit(<<f>>)
                    /\ dropped' = dropped \cup Refused(<<f>>)
                    /\ UNCHANGED inSpeech
               ELSE /\ inSpeech' = FALSE
                    /\ UNCHANGED <<sent, dropped>>
          ELSE UNCHANGED <<inSpeech, sent, dropped>>

\* processor.onaudioprocess of the ScriptProcessor fallback, and
\* sendAudioToAssemblyAI on both paths: every frame is sent when possible
PlainFrame(f) ==
  /\ sent' = sent \o Transmit(<<f>>)
  /\ dropped' = dropped \cup Refused(<<f>>)
  /\ UNCHANGED gateVars

\* the capture source delivers one frame of the given RMS, gap ms after the
\* previous callback
Frame(rms, gap, maxF) ==
  /\ isListening
  /\ Len(frames) < maxF
  /\ frames' = Append(frames, rms)
  /\ now' = now + gap
  /\ IF provider = "deepgram" /\ capture = "worklet"
     THEN GateFrame(Len(frames) + 1, rms, now + gap)
     ELSE PlainFrame(Len(frames) + 1)
  /\ delivered' = << >>
  /\ NoIncoming
  /\ NoThrow
  /\ UNCHANGED <<audioVars, voiceVars, onTranscript, provider, sockVars, reconnectAttempts, timers, pendingTok,
                 onError, isListening, capture, scheduled>>

ConnNext(maxS, cbs, paths) ==
  \/ Initialize(maxS)
  \/ \E o \in Origins : TokenOk(o)
  \/ \E o \in Origins : TokenFail(o)
  \/ \E cur \in BOOLEAN : SocketOpen(cur)
  \/ \E cur \in BOOLEAN, st \in LiveStates : SocketFail(cur, st)
  \/ \E cur \in BOOLEAN, st \in LiveStates : SocketClose(cur, st)
  \/ TimerFire(maxS)
  \/ Disconnect
  \/ \E cb \in cbs, p \in paths : StartListening(cb, p)
  \/ StopListening

Next == ConnNext(MaxSockets, {"null", "cb"}, {"worklet"})

Spec == Init /\ [][Next]_vars

\* the capture pipeline on a transport that connects once: the caller
\* registers onError and long runs of frames pass the gate
NextVad ==
  \/ Initialize(1)
  \/ \E o \in Origins : TokenOk(o)
  \/ \E cur \in BOOLEAN : SocketOpen(cur)
  \/ \E p \in {"worklet", "script"} : StartListening("cb", p)
  \/ \E rms \in RmsLevels, gap \in FrameGaps : Frame(rms, gap, MaxFrames)

SpecVad == Init /\ [][NextVad]_vars

\* the capture pipeline on a transport that loses and regains its connection
NextDrop ==
  \/ Initialize(MaxDropSockets)
  \/ \E o \in Origins : TokenOk(o)
  \/ \E cur \in BOOLEAN : SocketOpen(cur)
  \/ \E cur \in BOOLEAN, st \in LiveStates : SocketFail(cur, st)
  \/ \E cur \in BOOLEAN, st \in LiveStates : SocketClose(cur, st)
  \/ TimerFire(MaxDropSockets)
  \/ \E p \in {"worklet", "script"} : StartListening("cb", p)
  \/ \E rms \in RmsLevels, gap \in FrameGaps : Frame(rms, gap, MaxDropFrames)

SpecDrop == Init /\ [][NextDrop]_vars

----------------------------------------------------------------------------
(* Steps, as seen in the state *)

\* sockets of the instance whose readyState is OPEN
OpenSockets == (IF ws = "OPEN" THEN 1 ELSE 0) + orphans["OPEN"]

NoPendingTok == \A o \in Origins : pendingTok[o] = 0

\* a socket of the instance fires close in this step
CloseStep == LiveSockets' < LiveSockets

\* a socket of the instance fires open in this step
OpenStep == OpenSockets' > OpenSockets

\* the capture source delivers a frame in this step
FrameStep == Len(frames') = Len(frames) + 1

\* the frame delivered in this step and its RMS
NewFrame == Len(frames) + 1
NewRms == frames'[Len(frames')]

\* the frame handler of this capture runs the voice-activity gate
GatePath == provider = "deepgram" /\ capture = "worklet"

\* the last n elements of q
LastN(q, n) == SubSeq(q, Len(q) - n + 1, Len(q))

Ids(n) == [i \in 1..n |-> i]

\* how often frame f occurs in q
Count(q, f) == Cardinality({i \in 1..Len(q) : q[i] = f})

----------------------------------------------------------------------------
(* Provider messages *)

MessageKinds ==
  {"garbage", "connected", "transcript", "error", "SessionBegins",
   "Transcript", "FinalTranscript", "SessionTerminated", "Error", "other"}
Texts == {"", "hi"}
JsFlags == {"true", "false", "undefined"}

\* what a socket may receive: "garbage" does not parse as JSON, the other
\* kinds are the value of the type (Deepgram) or message_type (AssemblyAI)
\* field; text is the text or transcript field, isFinal the isFinal field
Messages ==
  {m \in [kind : MessageKinds, text : Texts, isFinal : JsFlags] :
     \/ m.kind \in {"transcript", "Transcript", "FinalTranscript"}
     \/ m.text = "" /\ m.isFinal = "undefined"}

\* the message falls under a transcript case of the provider's switch
IsTranscript(m) ==
  IF provider = "deepgram"
  THEN m.kind = "transcript"
  ELSE m.kind \in {"Transcript", "FinalTranscript"}

\* the message falls under the error case of the provider's switch
IsError(m) ==
  IF provider = "deepgram" THEN m.kind = "error" ELSE m.kind = "Error"

\* a final flag that is always true
isFinalAlways(m) == TRUE

\* second argument of onTranscript: !!message.isFinal for Deepgram, fixed by
\* the case label for AssemblyAI
isFinalArg(m) ==
  IF provider = "deepgram" THEN m.isFinal = "true"
  ELSE m.kind = "FinalTranscript"

\* the calls of this.onTranscript that handleMessage makes for m
toTranscript(m) ==
  IF IsTranscript(m) /\ m.text # "" /\ onTranscript = "cb"
  THEN << [text |-> m.text, isFinal |-> isFinalArg(m)] >>
  ELSE << >>

\* a handler that reports what it cannot handle
toErrorStrict(m) ==
  IF IsError(m) \/ (~IsTranscript(m) /\ m.kind \in {"garbage", "other"})
  THEN Report(<< >>, "service") ELSE << >>

\* a handler that reports an error message twice
toErrorTwice(m) ==
  IF IsError(m) THEN Report(Report(<< >>, "service"), "service") ELSE << >>

\* the calls of this.onError that handleMessage makes for m
toError(m) == IF IsError(m) THEN Report(<< >>, "service") ELSE << >>

\* handleMessage(data)
handleMessage(m) ==
  /\ lastMsg' = m
  /\ heard' = toTranscript(m)
  /\ delivered' = toError(m)
  /\ NoThrow
  /\ UNCHANGED <<audioVars, voiceVars, onTranscript, provider, sockVars,
                 reconnectAttempts, timers, pendingTok, onError, isListening,
                 capture, gateVars, frameVars, scheduled>>

\* ws.onmessage of an open socket of the instance
Message(m) ==
  /\ OpenSockets > 0
  /\ handleMessage(m)

\* the transport with the messages of the provider
NextMsg ==
  \/ ConnNext(MaxMsgSockets, {"null", "cb"}, {"worklet"})
  \/ \E m \in Messages : Message(m)

SpecMsg == Init /\ [][NextMsg]_vars

\* ws.onmessage runs in this step
MessageStep == lastMsg'.kind # "none"

----------------------------------------------------------------------------
(* Speaker detection: VoiceAnalyzer *)

(* The analyzer computes in IEEE doubles.  Here a feature is an integer      *)
(* (pitch in Hz, energy in 1/1000, spectral centroid in 100 Hz), a profile   *)
(* average is kept in 1/ProfileScale of the feature's unit and a ratio in    *)
(* 1/RatioScale; a division rounds down.                                     *)
ProfileScale == 1000
RatioScale == 1000
StdScale == 10                 \* pitchStdDev is kept in 1/10 Hz

speakerChangeThreshold == 7    \* 0.7, in tenths
analysisWindowSize == 50
minHistory == 10               \* classification needs more entries than this
alphaTenths == 1               \* learning rate alpha = 0.1
energyFloor == 10              \* the 0.01 added to avgEnergy, in 1/1000
silenceRms == 5                \* rms below 0.005 is skipped by the caller

Abs(x) == IF x < 0 THEN 0 - x ELSE x
Max(a, b) == IF a > b THEN a ELSE b

RECURSIVE SumSeq(_)
SumSeq(q) == IF q = << >> THEN 0 ELSE Head(q) + SumSeq(Tail(q))

\* Math.sqrt on a non-negative value, rounded down
Sqrt(v) == CHOOSE r \in 0..(v + 1) : r * r <= v /\ (r + 1) * (r + 1) > v

\* history.push(x); if (length > analysisWindowSize) shift()
PushHistory(h, x) ==
  LET h1 == Append(h, x)
  IN IF Len(h1) > analysisWindowSize THEN Tail(h1) ELSE h1

\* a gate that classifies from the tenth entry on
hasEnoughHistoryFromTen(n) == n >= minHistory

\* if (this.pitchHistory.length > 10)
hasEnoughHistory(n) == n > minHistory

\* |x - avg| / (avg + floor), in 1/RatioScale
RelDiff(x, avg, floor) ==
  (Abs(x * ProfileScale - avg) * RatioScale) \div (avg + floor * ProfileScale)

\* calculateDistance: four times the weighted distance, in 1/RatioScale
calculateDistance(f, profile) ==
  LET pitchDiff == IF profile.avgPitch > 0
                   THEN RelDiff(f.pitch, profile.avgPitch, 0) ELSE 0
      energyDiff == RelDiff(f.energy, profile.avgEnergy, energyFloor)
      spectralDiff == IF profile.spectralCentroid > 0
                      THEN RelDiff(f.spectralCentroid,
                                   profile.spectralCentroid, 0)
                      ELSE 0
  IN 2 * pitchDiff + energyDiff + spectralDiff

\* a detection where equal distances go to speaker 0
detectSpeakerChangeTieZero(f) ==
  LET distance0 == calculateDistance(f, speakerProfiles[0])
      distance1 == calculateDistance(f, speakerProfiles[1])
      maxDistance == Max(distance0, distance1)
      minDistance == Min(distance0, distance1)
  IN [newSpeaker |-> IF distance0 <= distance1 THEN 0 ELSE 1,
      confidence |-> IF maxDistance > 0
                     THEN [num |-> minDistance, den |-> maxDistance]
                     ELSE [num |-> 1, den |-> 2]]

\* detectSpeakerChange: the closer profile and the confidence as a fraction
detectSpeakerChange(f) ==
  LET distance0 == calculateDistance(f, speakerProfiles[0])
      distance1 == calculateDistance(f, speakerProfiles[1])
      maxDistance == Max(distance0, distance1)
      minDistance == Min(distance0, distance1)
  IN [newSpeaker |-> IF distance0 < distance1 THEN 0 ELSE 1,
      confidence |-> IF maxDistance > 0
                     THEN [num |-> minDistance, den |-> maxDistance]
                     ELSE [num |-> 1, den |-> 2]]

\* a threshold no confidence exceeds
ConfidentNever(c) == c.num > c.den

\* confidence > this.speakerChangeThreshold
Confident(c) == c.num * 10 > c.den * speakerChangeThreshold

\* a switch that does not look at the confidence
shouldSwitchAlways(r) == r.newSpeaker # currentSpeaker

\* newSpeaker !== this.currentSpeaker && confidence > threshold
shouldSwitch(r) == r.newSpeaker # currentSpeaker /\ Confident(r.confidence)

\* avg * (1 - alpha) + x * alpha
Ema(avg, x) ==
  ((10 - alphaTenths) * avg + alphaTenths * x * ProfileScale) \div 10

\* standard deviation of the last 20 entries of the pitch history
PitchStdDev(ph) ==
  LET recent == IF Len(ph) > 20 THEN LastN(ph, 20) ELSE ph
      n == Len(recent)
      mean == (SumSeq(recent) * StdScale) \div n
      sq == [i \in 1..n |-> (recent[i] * StdScale - mean)
                              * (recent[i] * StdScale - mean)]
  IN Sqrt(SumSeq(sq) \div n)

\* an update that also stamps the other profile with the pitch deviation
updateSpeakerProfileBoth(speakerId, f, ph) ==
  LET profile == speakerProfiles[speakerId]
      dev == IF Len(ph) > 0 THEN PitchStdDev(ph) + 1 ELSE 1
  IN [id \in {0, 1} |->
        IF id = speakerId
        THEN [avgPitch |-> Ema(profile.avgPitch, f.pitch),
              pitchStdDev |-> dev,
              avgEnergy |-> Ema(profile.avgEnergy, f.energy),
              spectralCentroid |-> Ema(profile.spectralCentroid,
                                       f.spectralCentroid)]
        ELSE [speakerProfiles[id] EXCEPT !.pitchStdDev = dev]]

\* updateSpeakerProfile(speakerId, pitch, energy, spectralCentroid)
updateSpeakerProfile(speakerId, f, ph) ==
  LET profile == speakerProfiles[speakerId]
  IN [speakerProfiles EXCEPT ![speakerId] =
        [avgPitch |-> Ema(profile.avgPitch, f.pitch),
         pitchStdDev |-> IF Len(ph) > 0 THEN PitchStdDev(ph)
                         ELSE profile.pitchStdDev,
         avgEnergy |-> Ema(profile.avgEnergy, f.energy),
         spectralCentroid |-> Ema(profile.spectralCentroid,
                                  f.spectralCentroid)]]

\* analyzeFrame(audioData), f being the features extracted from audioData
\* and k the number of the frame in this run
analyzeFrame(f, k) ==
  LET ph == PushHistory(pitchHistory, f.pitch)
      r == detectSpeakerChange(f)
      classify == hasEnoughHistory(Len(ph))
      change == classify /\ shouldSwitch(r)
      speaker == IF change THEN r.newSpeaker ELSE currentSpeaker
  IN /\ pitchHistory' = ph
     /\ energyHistory' = PushHistory(energyHistory, f.energy)
     /\ spectralHistory' = PushHistory(spectralHistory, f.spectralCentroid)
     /\ currentSpeaker' = speaker
     /\ speakerProfiles' = IF change
                           THEN updateSpeakerProfile(r.newSpeaker, f, ph)
                           ELSE speakerProfiles
     /\ events' = IF change
                  THEN Append(events, [frame |-> k, newSpeaker |-> r.newSpeaker])
                  ELSE events
     /\ lastResult' = [op |-> "frame", classified |-> classify,
                       speaker |-> speaker,
                       changeEvent |-> IF change THEN r.newSpeaker ELSE -1,
                       used |-> FALSE]

\* features of the frames the capture source may deliver
Signatures ==
  { [pitch |-> 100, energy |-> 50, spectralCentroid |-> 10],
    [pitch |-> 200, energy |-> 250, spectralCentroid |-> 20],
    [pitch |-> 100, energy |-> 400, spectralCentroid |-> 10],
    [pitch |-> 100, energy |-> 4, spectralCentroid |-> 10],
    [pitch |-> 0, energy |-> 0, spectralCentroid |-> 0] }

\* frames for which the source holds one signature before it changes
BlockLens == {15, 20}

\* who calls analyzeFrame: a caller that passes every frame, or
\* processor.onaudioprocess of LiveTranscription.startAudioAnalysis
Hosts == {"direct", "live"}

providerVars ==
  <<provider, ws, orphans, created, reconnectAttempts, timers, pendingTok,
    onError, isListening, capture, preRollFrames, inSpeech, lastSpeechTs,
    now, frames, dropped, sent, delivered, scheduled, onTranscript,
    lastMsg, heard, startError, audioVars>>

\* the k-th frame of the run: blocks of plan.block frames, alternating
\* between the two signatures of the plan
PlanFrame(k) ==
  IF ((k - 1) \div plan.block) % 2 = 0 THEN plan.first ELSE plan.second

\* the analyzer is in the state the constructor leaves it in
Fresh ==
  /\ pitchHistory = << >> /\ energyHistory = << >> /\ spectralHistory = << >>
  /\ currentSpeaker = 0
  /\ speakerProfiles = [id \in {0, 1} |-> ZeroProfile]

\* new VoiceAnalyzer(sampleRate), and the capture source starts a run
StartAnalysis(host, a, b, len) ==
  /\ plan = NoPlan
  /\ plan' = [host |-> host, first |-> a, second |-> b, block |-> len]
  /\ pitchHistory' = << >>
  /\ energyHistory' = << >>
  /\ spectralHistory' = << >>
  /\ speakerProfiles' = [id \in {0, 1} |-> ZeroProfile]
  /\ currentSpeaker' = 0
  /\ offered' = 0
  /\ seen' = << >>
  /\ events' = << >>
  /\ lastResult' = [NoResult EXCEPT !.op = "new"]
  /\ UNCHANGED providerVars

\* if (rms < 0.005) return, in processor.onaudioprocess; the rms computed
\* there is the energy feature of the frame
SkipsFrame(f) == plan.host = "live" /\ f.energy < silenceRms

\* the capture source delivers the next frame of the run
AudioFrame(maxF) ==
  /\ plan # NoPlan
  /\ offered < maxF
  /\ offered' = offered + 1
  /\ LET f == PlanFrame(offered + 1)
     IN IF SkipsFrame(f)
        THEN /\ lastResult' = [NoResult EXCEPT !.op = "skip",
                                               !.speaker = currentSpeaker]
             /\ UNCHANGED <<analyzerVars, seen, events>>
        ELSE /\ analyzeFrame(f, offered + 1)
             /\ seen' = Append(seen, offered + 1)
  /\ UNCHANGED <<plan, providerVars>>

\* a reset that leaves the profiles as they are
resetProfileKeep(profile) == profile

\* what reset() makes of a profile
resetProfile(profile) ==
  [profile EXCEPT !.avgPitch = 0, !.pitchStdDev = 0, !.avgEnergy = 0,
                  !.spectralCentroid = 0]

\* reset(); the run of the capture source ends with it
Reset ==
  /\ pitchHistory' = << >>
  /\ energyHistory' = << >>
  /\ spectralHistory' = << >>
  /\ currentSpeaker' = 0
  /\ speakerProfiles' =
       [id \in DOMAIN speakerProfiles |-> resetProfile(speakerProfiles[id])]
  /\ plan' = NoPlan
  /\ offered' = 0
  /\ seen' = << >>
  /\ events' = << >>
  /\ lastResult' = [NoResult EXCEPT !.op = "reset", !.used = ~Fresh]
  /\ UNCHANGED providerVars

NextVoice ==
  \/ \E host \in Hosts, a \in Signatures, b \in Signatures, len \in BlockLens :
       StartAnalysis(host, a, b, len)
  \/ AudioFrame(MaxVoiceFrames)
  \/ Reset

SpecVoice == Init /\ [][NextVoice]_vars

\* a frame reaches analyzeFrame in this step
AnalyzeStep == lastResult'.op = "frame" /\ offered' = offered + 1

\* reset() runs in this step
ResetStep == lastResult'.op = "reset"

----------------------------------------------------------------------------
(* Capture after stopListening *)

(* The worklet posts a frame per render quantum to node.port; a message     *)
(* posted before stopListening() ran, or before audioContext.close() took   *)
(* effect, is still dispatched to node.port.onmessage afterwards.  Neither  *)
(* that handler nor processor.onaudioprocess looks at isListening, and      *)
(* stopListening() does not detach them.                                    *)

\* a frame handler of the stopped capture runs: its closure, with its
\* pre-roll buffer, is the one the last startListening() created
LateFrame(rms, gap, maxF) ==
  /\ ~isListening
  /\ capture # "none"
  /\ Len(frames) < maxF
  /\ frames' = Append(frames, rms)
  /\ now' = now + gap
  /\ IF provider = "deepgram" /\ capture = "worklet"
     THEN GateFrame(Len(frames) + 1, rms, now + gap)
     ELSE PlainFrame(Len(frames) + 1)
  /\ delivered' = << >>
  /\ NoIncoming
  /\ NoThrow
  /\ UNCHANGED <<audioVars, voiceVars, onTranscript, provider, sockVars,
                 reconnectAttempts, timers, pendingTok, onError, isListening,
                 capture, scheduled>>

\* the capture pipeline on a transport that connects once, started and
\* stopped by the caller
NextStop ==
  \/ Initialize(1)
  \/ \E o \in Origins : TokenOk(o)
  \/ \E cur \in BOOLEAN : SocketOpen(cur)
  \/ \E p \in {"worklet", "script"} : StartListening("cb", p)
  \/ \E cb \in {"null", "cb"} : StartListeningFail(cb)
  \/ StopListening
  \/ \E rms \in RmsLevels, gap \in FrameGaps : Frame(rms, gap, MaxStopFrames)
  \/ \E rms \in RmsLevels, gap \in FrameGaps :
       LateFrame(rms, gap, MaxStopFrames)

SpecStop == Init /\ [][NextStop]_vars

----------------------------------------------------------------------------
(* Audio conversion: downsampleBuffer and convertFloat32ToInt16 *)

(* A sample is an integer number of 1/SampleScale, so that 1.0 is          *)
(* SampleScale; SampleScale is a power of two and every sample of the      *)
(* model is a value a Float32Array holds exactly.  A rate is in Hz.        *)

SampleScale == 65536
Int16Pos == 32767        \* 0x7fff
Int16Neg == 32768        \* 0x8000
Samples == {-98304, -3, 0, 32769, 98304}
Rates == {8000, 16000, 44100, 48000}

\* buffers of at most n samples
Buffers(n) == UNION {[1..l -> Samples] : l \in 0..n}

\* Math.round(a / b) for b > 0: the nearest integer, a half goes up
Round(a, b) == (2 * a + b) \div (2 * b)

\* rounding down instead
newLengthFloor(L, srcRate, dstRate) == (L * dstRate) \div srcRate

\* Math.round(buffer.length / sampleRateRatio)
newLength(L, srcRate, dstRate) == Round(L * dstRate, srcRate)

\* offsetBuffer when result[k] is computed (k from 0): 0 at first, then the
\* nextOffsetBuffer of the round before, Math.round(k * sampleRateRatio)
offsetBuffer(k, srcRate, dstRate) == Round(k * srcRate, dstRate)

\* the inner for loop: accum and count over i from offsetBuffer while
\* i < nextOffsetBuffer and i < buffer.length (i from 0; the sequence from 1)
Block(buffer, k, srcRate, dstRate) ==
  {i \in 1..Len(buffer) :
     /\ i - 1 >= offsetBuffer(k, srcRate, dstRate)
     /\ i - 1 < offsetBuffer(k + 1, srcRate, dstRate)}

RECURSIVE Accum(_, _)
Accum(buffer, S) ==
  IF S = {} THEN 0
  ELSE LET i == CHOOSE j \in S : TRUE
       IN buffer[i] + Accum(buffer, S \ {i})

\* count ? accum / count : 0, stored at the resolution of a sample
Mean(accum, count) == IF count > 0 THEN Round(accum, count) ELSE 0

downsampleBuffer(buffer, srcRate, dstRate) ==
  IF dstRate = srcRate THEN buffer
  ELSE [k \in 1..newLength(Len(buffer), srcRate, dstRate) |->
          LET B == Block(buffer, k - 1, srcRate, dstRate)
          IN Mean(Accum(buffer, B), Cardinality(B))]

\* Math.max(-1, Math.min(1, s))
Clamp(s) == Max(0 - SampleScale, Min(SampleScale, s))

\* the integer part of a / b (b > 0): what is left when the fraction is cut
Truncate(a, b) == IF a >= 0 THEN a \div b ELSE (a + b - 1) \div b

\* storing the number a / b in an Int16Array: the fraction is cut off and
\* the integer wraps to 16 bits
ToInt16(a, b) == ((Truncate(a, b) + 32768) % 65536) - 32768

\* result[i] = s < 0 ? s * 0x8000 : s * 0x7fff
convertFloat32ToInt16(buffer) ==
  [i \in 1..Len(buffer) |->
     LET s == Clamp(buffer[i])
     IN IF s < 0 THEN ToInt16(s * Int16Neg, SampleScale)
                 ELSE ToInt16(s * Int16Pos, SampleScale)]

\* what the conversion leaves alone
restVars ==
  <<voiceVars, provider, ws, orphans, created, reconnectAttempts, timers,
    pendingTok, onError, isListening, capture, preRollFrames, inSpeech,
    lastSpeechTs, now, frames, dropped, sent, delivered, scheduled,
    onTranscript, lastMsg, heard, startError>>

\* the audio graph hands a buffer captured at rate src to the frame handler;
\* the model follows one buffer
Capture(b, src) ==
  /\ sampleRate = 0
  /\ float32' = b
  /\ sampleRate' = src
  /\ UNCHANGED <<outRate, down, pcm16, restVars>>

\* the frame handler (node.port.onmessage / onaudioprocess) on that buffer:
\* downsample it to rate dst, then convert it to 16-bit PCM
Resample(dst) ==
  /\ sampleRate # 0
  /\ outRate = 0
  /\ outRate' = dst
  /\ down' = downsampleBuffer(float32, sampleRate, dst)
  /\ pcm16' = convertFloat32ToInt16(down')
  /\ UNCHANGED <<float32, sampleRate, restVars>>

NextAudio ==
  \/ \E b \in Buffers(MaxLen), src \in Rates : Capture(b, src)
  \/ \E dst \in Rates : Resample(dst)

SpecAudio == Init /\ [][NextAudio]_vars

----------------------------------------------------------------------------
(* Claims *)

BackoffSeq == <<2000, 4000, 8000, 10000, 10000>>

\* C1: when connection attempts keep failing, the reconnects scheduled since
\* the last successful open are exactly the first reconnectAttempts delays of
\* 2000, 4000, 8000, 10000, 10000; every close below the limit schedules the
\* next one of them, and a close at the limit schedules nothing and reports
\* the fatal error to the registered onError callback.
C1_BackoffThenFatal ==
  /\ [](/\ Len(scheduled) = reconnectAttempts
        /\ reconnectAttempts <= 5
        /\ scheduled = SubSeq(BackoffSeq, 1, Len(scheduled)))
  /\ [][CloseStep =>
          IF reconnectAttempts < 5
          THEN /\ scheduled' = Append(scheduled, BackoffSeq[reconnectAttempts + 1])
               /\ timers' = timers + 1
               /\ "fatal" \notin Range(delivered')
          ELSE /\ scheduled' = scheduled
               /\ timers' = timers
               /\ (onError = "cb" => delivered'[Len(delivered')] = "fatal")]_vars

\* C1 witness: six sockets were created (the caller's and five reconnects),
\* all have closed, no timer is left, and the last close reported the fatal
\* error.
W_C1 ==
  /\ created = 6 /\ LiveSockets = 0 /\ timers = 0 /\ NoPendingTok
  /\ scheduled = BackoffSeq
  /\ "fatal" \in Range(delivered)

\* C2: the close of a socket that disconnect() closed schedules no reconnect,
\* and a reconnect timer never opens a socket while this.ws is null.
CE_C2 ==
  /\ [][orphans'["CLOSING"] < orphans["CLOSING"] =>
          timers' = timers /\ reconnectAttempts' = reconnectAttempts]_vars
  /\ [][(ws = "null" /\ ws' = "CONNECTING") =>
          timers' = timers /\ pendingTok'["timer"] = pendingTok["timer"]]_vars

\* C3: at most one socket of the instance is connecting or open.
CE_C3 == ActiveSockets <= 1

\* C4: on the gated path with the transport connected, N quiet frames
\* followed by a loud frame make the transport receive the last min(N, 8)
\* quiet frames, oldest first, and then the loud frame.  (What the handler
\* sends after the loud frame is not held against the claim here.)
CE_C4 ==
  [][(/\ FrameStep /\ GatePath /\ ws = "OPEN"
      /\ \A i \in 1..Len(frames) : frames[i] < vadThreshold
      /\ NewRms >= vadThreshold)
     => LET want == sent \o LastN(Ids(Len(frames)), Min(Len(frames), 8))
                         \o <<NewFrame>>
        IN /\ Len(sent') >= Len(want)
           /\ SubSeq(sent', 1, Len(want)) = want]_vars

\* C5: with the transport connected, a quiet frame that comes right after a
\* loud frame is transmitted when it arrives at most 300 ms after it, and is
\* not transmitted when it arrives later.
CE_C5 ==
  [][(/\ FrameStep /\ provider = "deepgram" /\ ws = "OPEN"
      /\ Len(frames) > 0 /\ frames[Len(frames)] >= vadThreshold
      /\ NewRms < vadThreshold)
     => IF now' - now <= 300
        THEN sent' = Append(sent, NewFrame)
        ELSE sent' = sent]_vars

\* C6: frames reach the socket only in steps of the frame handler taken while
\* this.ws is OPEN; a frame handled in any other state is dropped without a
\* call of onError, and nothing is sent when the connection comes up.
C6_SendOnlyWhenOpen ==
  [][/\ (sent' # sent => FrameStep /\ ws = "OPEN")
     /\ (FrameStep /\ ws # "OPEN" => sent' = sent /\ delivered' = << >>)]_vars

\* C6 witness: a loud frame was handled and dropped while some other frame
\* got through.
W_C6 ==
  /\ sent # << >>
  /\ \E i \in dropped : frames[i] >= vadThreshold /\ i \notin Range(sent)

\* C7: a frame whose send was attempted while the transport was not
\* connected is never handed to the socket afterwards.
CE_C7 == [][\A f \in dropped : Count(sent', f) = Count(sent, f)]_vars

\* C8: after a lost or failed connection the provider is never left with the
\* reconnect budget unspent and yet nothing under way: no socket, no timer
\* and no token exchange.
CE_C8 ==
  ~(/\ ws = "CLOSED"
    /\ reconnectAttempts \in 1..(maxReconnectAttempts - 1)
    /\ LiveSockets = 0 /\ timers = 0 /\ NoPendingTok)

\* C9: while reconnectAttempts is below the limit, the close of a socket
\* schedules a reconnect and passes nothing to onError.
CE_C9 ==
  [][(CloseStep /\ reconnectAttempts < maxReconnectAttempts)
     => delivered' = << >> /\ timers' = timers + 1]_vars

\* C10: every open sets reconnectAttempts to 0, and a close that finds the
\* counter at 0 schedules the first delay of the backoff sequence.
C10_OpenResetsCounter ==
  /\ [][OpenStep => reconnectAttempts' = 0]_vars
  /\ [][(CloseStep /\ reconnectAttempts = 0) =>
          /\ reconnectAttempts' = 1
          /\ timers' = timers + 1
          /\ scheduled'[Len(scheduled')] = 2000]_vars

\* C10 witness: the first socket closed, its reconnect timer fired, and the
\* socket of that reconnect is open with the counter back at 0.
W_C10 ==
  /\ created = 2 /\ LiveSockets = 1 /\ ws = "OPEN"
  /\ timers = 0 /\ NoPendingTok
  /\ reconnectAttempts = 0

\* C11: in every reachable state 0 <= reconnectAttempts <= 5, whatever the
\* order of socket closes, reconnect timers and opens.
C11_AttemptsBounded ==
  reconnectAttempts >= 0 /\ reconnectAttempts <= maxReconnectAttempts

\* C11 witness: the counter stands at the limit while two more sockets of the
\* instance are still connecting or open and a reconnect timer is pending.
W_C11 ==
  /\ reconnectAttempts = maxReconnectAttempts
  /\ ActiveSockets >= 2 /\ timers >= 1

\* C12 as stated: every transcript event a socket receives while a transcript
\* sink is registered is passed to the sink, once, with its text and its
\* isFinal flag.
CE_C12 ==
  [][(MessageStep /\ IsTranscript(lastMsg') /\ onTranscript = "cb") =>
       /\ Len(heard') = 1
       /\ heard'[1].text = lastMsg'.text
       /\ (provider = "deepgram" /\ lastMsg'.isFinal = "true"
             => heard'[1].isFinal)
       /\ (provider = "deepgram" /\ lastMsg'.isFinal = "false"
             => ~heard'[1].isFinal)]_vars

\* C12 amended: a transcript event with a non-empty text that arrives once
\* startListening() has registered the sink is passed to it exactly once in
\* the step that receives it, text unchanged, isFinal true only for a final
\* event; every other message, and every other step, passes nothing.
C12_TranscriptForwarded ==
  /\ [][MessageStep =>
          IF /\ IsTranscript(lastMsg') /\ lastMsg'.text # ""
             /\ onTranscript = "cb"
          THEN heard' =
                 << [text |-> lastMsg'.text,
                     isFinal |-> IF provider = "deepgram"
                                 THEN lastMsg'.isFinal = "true"
                                 ELSE lastMsg'.kind = "FinalTranscript"] >>
          ELSE heard' = << >>]_vars
  /\ [][~MessageStep => heard' = << >>]_vars

\* C12 witness: an interim transcript was received and passed on as interim.
W_C12 ==
  /\ IsTranscript(lastMsg)
  /\ heard = << [text |-> "hi", isFinal |-> FALSE] >>

\* the message does not parse or carries a type the provider does not know
Unhandled(m) ==
  \/ m.kind = "garbage"
  \/ provider = "deepgram" /\ m.kind \notin {"connected", "transcript", "error"}
  \/ provider = "assemblyai" /\
       m.kind \notin {"SessionBegins", "Transcript", "FinalTranscript",
                      "SessionTerminated", "Error"}

\* C13: a message that does not parse or has an unknown type calls neither
\* onTranscript nor onError, leaves the sockets, the listening flag and the
\* reconnect counter as they were, and the socket goes on receiving.
C13_BadMessageIgnored ==
  [][(MessageStep /\ Unhandled(lastMsg')) =>
       /\ heard' = << >> /\ delivered' = << >>
       /\ UNCHANGED <<ws, orphans, isListening, reconnectAttempts, timers>>
       /\ OpenSockets' > 0]_vars

\* C13 witness: an unparsable message was handled while listening on an open
\* socket with both callbacks registered.
W_C13 ==
  /\ lastMsg.kind = "garbage"
  /\ ws = "OPEN" /\ isListening
  /\ onTranscript = "cb" /\ onError = "cb"

\* C14: on a classified frame an event is emitted exactly when the closer
\* profile is not the current speaker and the confidence exceeds 0.7; then
\* the current speaker and the returned speaker are the event's newSpeaker;
\* otherwise the current speaker stays and no event is returned.
C14_EventIffConfidentSwitch ==
  [][(AnalyzeStep /\ lastResult'.classified) =>
       LET r == detectSpeakerChange(PlanFrame(offered'))
       IN IF /\ r.newSpeaker # currentSpeaker
             /\ r.confidence.num * 10 > r.confidence.den * 7
          THEN /\ lastResult'.changeEvent = r.newSpeaker
               /\ currentSpeaker' = r.newSpeaker
               /\ lastResult'.speaker = r.newSpeaker
          ELSE /\ lastResult'.changeEvent = -1
               /\ currentSpeaker' = currentSpeaker
               /\ lastResult'.speaker = currentSpeaker]_vars

\* C14 witness: the analyzer has switched to speaker 1 and, with the frame
\* just analyzed, back to speaker 0.
W_C14 ==
  /\ lastResult.op = "frame" /\ lastResult.changeEvent = 0
  /\ currentSpeaker = 0 /\ Len(events) = 2

\* C15: a frame is classified exactly when the history, the frame's features
\* included, holds at least 10 entries.
CE_C15 ==
  [][AnalyzeStep =>
       (lastResult'.classified <=> Len(pitchHistory') >= 10)]_vars

\* C16: an analyzer fed 60 or more frames that all carry the same non-zero
\* pitch, energy and centroid has emitted at most one change event.
CE_C16 ==
  (/\ plan.host = "direct" /\ plan.first = plan.second
   /\ plan.first.pitch > 0 /\ plan.first.energy > 0
   /\ plan.first.spectralCentroid > 0
   /\ offered >= 60)
  => Len(events) <= 1

\* C17: with two signatures that differ in pitch, energy and centroid and
\* alternate in blocks of 15 or more frames, every block after the first has
\* a change event among its frames once it is complete, and successive
\* events name alternating speakers.
CE_C17 ==
  (/\ plan.host = "direct"
   /\ plan.first.pitch # plan.second.pitch
   /\ plan.first.energy # plan.second.energy
   /\ plan.first.spectralCentroid # plan.second.spectralCentroid)
  => /\ \A j \in 2..(offered \div plan.block) :
          \E i \in 1..Len(events) :
             /\ events[i].frame > (j - 1) * plan.block
             /\ events[i].frame <= j * plan.block
     /\ \A i \in 1..(Len(events) - 1) :
          events[i].newSpeaker # events[i + 1].newSpeaker

\* C18: reset() leaves the three histories empty, currentSpeaker 0 and both
\* profiles (ids 0 and 1) with all four values 0, which is the state of a
\* newly constructed analyzer, so what follows is as on a new one; a reset
\* of an analyzer in that state changes nothing.
C18_ResetIsFresh ==
  /\ [][ResetStep =>
          /\ pitchHistory' = << >> /\ energyHistory' = << >>
          /\ spectralHistory' = << >>
          /\ currentSpeaker' = 0
          /\ DOMAIN speakerProfiles' = {0, 1}
          /\ \A id \in {0, 1} :
               /\ speakerProfiles'[id].avgPitch = 0
               /\ speakerProfiles'[id].pitchStdDev = 0
               /\ speakerProfiles'[id].avgEnergy = 0
               /\ speakerProfiles'[id].spectralCentroid = 0]_vars
  /\ [][(ResetStep /\ Fresh) => UNCHANGED analyzerVars]_vars

\* C18 witness: reset() has run on an analyzer that had been used.
W_C18 == lastResult.op = "reset" /\ lastResult.used /\ Fresh

\* C19: every frame the capture source has delivered in the run has been
\* passed to analyzeFrame, once and in arrival order.
CE_C19 == plan # NoPlan => seen = Ids(offered)

\* C20: the pre-roll buffer holds at most 8 frames and they are the most
\* recent frames in arrival order; a quiet frame pushed onto a full buffer
\* evicts the oldest one.
C20_PreRollFifo ==
  /\ [](/\ Len(preRollFrames) <= 8
        /\ preRollFrames = LastN(Ids(Len(frames)), Len(preRollFrames)))
  /\ [][(/\ FrameStep /\ GatePath /\ Len(preRollFrames) = 8
          /\ NewRms < vadThreshold)
         => preRollFrames' = Append(Tail(preRollFrames), NewFrame)]_vars

\* C20 witness: nine quiet frames went through the gate; the buffer holds
\* frames 2 to 9.
W_C20 ==
  /\ Len(frames) = 9
  /\ preRollFrames = <<2, 3, 4, 5, 6, 7, 8, 9>>

\* C21: while the provider is not listening, the frames that the pre-roll
\* buffer holds are not handed to the socket: a stop discards them.
CE_C21 ==
  [][~isListening =>
       \A f \in Range(preRollFrames) : Count(sent', f) = Count(sent, f)]_vars

\* C22: on a classified frame whose closer profile is chosen with a
\* confidence above 0.7, that profile takes the moving-average step on
\* avgPitch, avgEnergy and spectralCentroid, also when the speaker chosen
\* is already the current one.
CE_C22 ==
  [][(AnalyzeStep /\ lastResult'.classified) =>
       LET f == PlanFrame(offered')
           r == detectSpeakerChange(f)
           old == speakerProfiles[r.newSpeaker]
           new == speakerProfiles'[r.newSpeaker]
       IN r.confidence.num * 10 > r.confidence.den * 7
          => /\ new.avgPitch = Ema(old.avgPitch, f.pitch)
             /\ new.avgEnergy = Ema(old.avgEnergy, f.energy)
             /\ new.spectralCentroid
                  = Ema(old.spectralCentroid, f.spectralCentroid)]_vars

\* startListening() throws in this step
FailStep == startError' # "none"

\* C23: when capture cannot be set up, startListening() passes the message
\* to the onError callback it was given, once, and throws it; isListening
\* stays false, no capture path is wired, no frame is handled and nothing is
\* scheduled that would try again.
C23_CaptureFailureSurfaced ==
  [][FailStep =>
       /\ startError' = "capture"
       /\ delivered' = (IF onError' = "cb" THEN << "capture" >> ELSE << >>)
       /\ ~isListening /\ ~isListening'
       /\ UNCHANGED <<capture, gateVars, frameVars, timers, pendingTok,
                      sockVars, reconnectAttempts>>]_vars

\* C23 witness: on a connected provider startListening() failed and the
\* caller's onError received the message.
W_C23 ==
  /\ startError = "capture" /\ delivered = << "capture" >>
  /\ ws = "OPEN" /\ ~isListening

\* the samples the claim assigns to output k (from 1) of a resampling
ClaimedBlock(k) ==
  {i \in 1..Len(float32) :
     /\ 2 * i * outRate > 2 * (k - 1) * sampleRate + outRate
     /\ 2 * i * outRate <= 2 * k * sampleRate + outRate}

\* C24: downsampleBuffer returns its input when the two rates are equal;
\* otherwise it returns round(L/r) samples, r = srcRate/dstRate, and output
\* k is the mean of the input samples at positions round((k-1)r) up to, not
\* including, round(kr), as far as the input goes, or 0 when there are none.
C24_ResampleLengthAndMeans ==
  outRate # 0 =>
    IF sampleRate = outRate THEN down = float32
    ELSE /\ 2 * sampleRate * Len(down) <= 2 * outRate * Len(float32) + sampleRate
         /\ 2 * sampleRate * Len(down) > 2 * outRate * Len(float32) - sampleRate
         /\ \A k \in 1..Len(down) :
              LET B == ClaimedBlock(k)
                  n == Cardinality(B)
                  sum == SumSeq([j \in 1..n |->
                            float32[j + (CHOOSE m \in 0..Len(float32) :
                                           \A i \in B : i > m /\ i <= m + n)]])
              IN IF n = 0 THEN down[k] = 0
                 ELSE 2 * Abs(n * down[k] - sum) <= n

\* C24 witness: three samples captured at 44100 Hz became one sample at
\* 16000 Hz, and it is not zero.
W_C24 ==
  /\ sampleRate = 44100 /\ outRate = 16000
  /\ Len(float32) = 3 /\ Len(down) = 1 /\ down[1] # 0

\* round(a / b) for b > 0, the nearest integer
Nearest(a, b) ==
  LET f == a \div b
  IN IF 2 * (a - f * b) >= b THEN f + 1 ELSE f

\* C25: every output sample of convertFloat32ToInt16 is round(s * 32767) for
\* a clamped input s >= 0 and round(s * 32768) for s < 0, lies in
\* -32768..32767, and scaled back (by 1/32767 or 1/32768) is within 1/32768
\* of the clamped input.
CE_C25 ==
  \A i \in 1..Len(pcm16) :
    LET s == Clamp(down[i])
        q == pcm16[i]
    IN /\ q = IF s >= 0 THEN Nearest(s * Int16Pos, SampleScale)
                       ELSE Nearest(s * Int16Neg, SampleScale)
       /\ q \in -32768..32767
       /\ IF s >= 0
          THEN Abs(SampleScale * q - Int16Pos * s) * Int16Neg
                 <= Int16Pos * SampleScale
          ELSE Abs(SampleScale * q - Int16Neg * s) <= SampleScale

\* C26: for the distances d0, d1 of a frame to the two profiles, which are
\* never negative, detectSpeakerChange gives the candidate 0 exactly when
\* d0 < d1 and 1 otherwise, also when they are equal; the confidence is
\* min/max when max > 0 and 1/2 when both are 0, so it lies between 0 and 1.
C26_CandidateAndConfidence ==
  \A f \in Signatures :
    LET d0 == calculateDistance(f, speakerProfiles[0])
        d1 == calculateDistance(f, speakerProfiles[1])
        r == detectSpeakerChange(f)
        c == r.confidence
    IN /\ d0 >= 0 /\ d1 >= 0
       /\ r.newSpeaker = 0 <=> d0 < d1
       /\ r.newSpeaker = 1 <=> d0 >= d1
       /\ (d0 >= d1 /\ d0 > 0) => c = [num |-> d1, den |-> d0]
       /\ (d1 >= d0 /\ d1 > 0) => c = [num |-> d0, den |-> d1]
       /\ (d0 = 0 /\ d1 = 0) => 2 * c.num = c.den
       /\ c.den > 0 /\ 0 <= c.num /\ c.num <= c.den

\* C26 witness: an analyzer with two equal profiles classified a frame that
\* both are equally far from, and the event it emitted names speaker 1.
W_C26 ==
  /\ lastResult.op = "frame" /\ lastResult.changeEvent = 1
  /\ Len(events) = 1
  /\ speakerProfiles[0] = ZeroProfile
  /\ speakerProfiles[1] # ZeroProfile

\* C27: an error message of the provider is passed to the registered onError
\* callback once, and to nobody when none is registered; it calls no
\* transcript sink, closes and opens no socket, schedules no reconnect and
\* leaves the reconnect counter and the listening flag as they were.
C27_ErrorMessageSurfacedOnce ==
  [][(MessageStep /\ IsError(lastMsg')) =>
       /\ delivered' = (IF onError = "cb" THEN << "service" >> ELSE << >>)
       /\ heard' = << >>
       /\ UNCHANGED <<ws, orphans, created, timers, pendingTok, scheduled,
                      reconnectAttempts, isListening>>]_vars

\* C27 witness: the Deepgram service reported an error on the open socket
\* of a listening provider and the caller's onError received it.
W_C27 ==
  /\ provider = "deepgram" /\ lastMsg.kind = "error"
  /\ delivered = << "service" >>
  /\ ws = "OPEN" /\ isListening

\* the first classified frame on zero profiles has energy: what C28 says of it
FirstEnergeticFrame ==
  [][(/\ AnalyzeStep /\ lastResult'.classified
      /\ speakerProfiles = [id \in {0, 1} |-> ZeroProfile]
      /\ currentSpeaker = 0
      /\ PlanFrame(offered').energy > 0) =>
       LET c == detectSpeakerChange(PlanFrame(offered')).confidence
       IN /\ c.num = c.den
          /\ lastResult'.changeEvent = 1
          /\ currentSpeaker' = 1
          /\ events' = Append(events, [frame |-> offered', newSpeaker |-> 1])]_vars

\* C28: while both profiles are zero and the current speaker is 0, a
\* classified frame with non-zero energy emits an event for speaker 1 with
\* confidence 1, whatever its pitch and centroid; so the first event of a run
\* names speaker 1, and two consecutive events never name the same speaker.
C28_FirstEventIsSpeakerOne ==
  /\ FirstEnergeticFrame
  /\ [](/\ events # << >> => events[1].newSpeaker = 1
        /\ \A i \in 1..(Len(events) - 1) :
             events[i].newSpeaker # events[i + 1].newSpeaker)

\* C28 witness: a run has emitted its first event, for speaker 1, and then a
\* second one, for speaker 0.
W_C28 ==
  /\ Len(events) = 2
  /\ events[1].newSpeaker = 1 /\ events[2].newSpeaker = 0
  /\ lastResult.changeEvent = 0

\* C29: on the gated path the frames handed to the socket are in the order
\* of their arrival and none of them is handed over twice.
CE_C29 ==
  GatePath =>
    \A i \in 1..Len(sent), j \in 1..Len(sent) : i < j => sent[i] < sent[j]

\* C30: a call of analyzeFrame changes at most one profile, and only that of
\* the speaker it returns; a call that returns no event leaves both profiles
\* and the current speaker as they were; there are always the two profiles
\* 0 and 1, and the current speaker is one of them.
C30_OneProfilePerFrame ==
  /\ [][AnalyzeStep =>
          LET changed == {id \in {0, 1} :
                            speakerProfiles'[id] # speakerProfiles[id]}
          IN /\ Cardinality(changed) <= 1
             /\ changed \subseteq {lastResult'.speaker}
             /\ lastResult'.speaker = currentSpeaker'
             /\ lastResult'.changeEvent = -1 =>
                  UNCHANGED <<speakerProfiles, currentSpeaker>>]_vars
  /\ [](DOMAIN speakerProfiles = {0, 1} /\ currentSpeaker \in {0, 1})

\* C30 witness: the last frame switched back to speaker 0 and both profiles
\* have been updated by now.
W_C30 ==
  /\ lastResult.op = "frame" /\ lastResult.changeEvent = 0
  /\ currentSpeaker = 0
  /\ speakerProfiles[0] # ZeroProfile /\ speakerProfiles[1] # ZeroProfile

====
